---- MODULE Spec2Model ----
(***************************************************************************)
(* Model of amz/converter.py: AudioConverter.convert and                   *)
(* AudioConverter._get_audio_bitrate.                                      *)
(*                                                                         *)
(* Strings the code only copies (paths, names, keys, flags) are TLA+       *)
(* strings.  Strings the code inspects character by character (the codec   *)
(* it lowercases, the bit_rate text it parses with int()) are sequences of *)
(* one-character strings.  Optional[str] is a record with a `some` field.  *)
(***************************************************************************)
EXTENDS Integers, Sequences, FiniteSets, TLC

\* Number of convert calls made on the one converter instance.
MaxCalls == 2

None == [some |-> FALSE]
Some(v) == [some |-> TRUE, val |-> v]

\* class AudioExtension(Enum): the values of the members.
AudioExtension == {".flac", ".m4a", ".opus", ".ogg", ".mp3"}

-----------------------------------------------------------------------------
\* Inputs and environment the calls are drawn from.

\* Paths for which os.path.isfile is true.
ExistingFiles == {"song.flac_enc", "in.webm"}

InputPaths == ExistingFiles \cup {"missing.bin"}

OutputNames == {"out", "dir/track"}

DecryptionKeys == {None, Some(""), Some("ABCD")}

S_flac == <<"f","l","a","c">>
S_ec3 == <<"e","c","-","3">>
S_ac4 == <<"a","c","-","4",".","0","2",".","0","2",".","0","0">>
S_opus == <<"o","p","u","s">>

Codecs ==
  { S_flac, <<"F","L","A","C">>,
    S_ec3, <<"E","C","-","3">>,
    S_ac4, <<"A","C","-","4",".","0","2",".","0","2",".","0","0">>,
    S_opus, <<"O","p","u","s">>, <<"O","P","U","S">>,
    <<"v","o","r","b","i","s","-","l","e","g","a","c","y">>,
    <<"a","a","c">>, <<"m","p","3">>, <<>> }

\* What json.loads(result.stdout) can be for the ffprobe call: an object that
\* may have "streams", a list of objects that may have "bit_rate".
ProbeJson ==
  { [streams |-> << [bit_rate |-> <<"9","6","0","0","0">>] >>],
    [streams |-> << [bit_rate |-> <<"1","2","8","0","0","0">>] >>],
    [streams |-> << [bit_rate |-> <<"3","2","0","9","9","9">>] >>],
    [streams |-> << [bit_rate |-> <<"9","9","9">>] >>],
    [streams |-> << [bit_rate |-> <<"N","/","A">>] >>],
    [streams |-> << [bit_rate |-> <<>>] >>],
    [streams |-> << [index |-> <<"0">>] >>],
    [streams |-> << >>],
    [programs |-> << >>] }

\* Outcomes of subprocess.run(cmd, capture_output=True, check=True) followed
\* by json.loads: the executable cannot be started, it exits nonzero, its
\* stdout is not JSON, or its stdout parses.
ProbeOutcomes ==
  { [kind |-> "oserror"], [kind |-> "exit", code |-> 1], [kind |-> "badjson"] }
  \cup { [kind |-> "json", info |-> j] : j \in ProbeJson }

\* Outcomes of subprocess.run(ffmpeg_cmd, ...): the executable cannot be
\* started, or it ends with a return code.
FfmpegOutcomes ==
  { [kind |-> "oserror"] } \cup { [kind |-> "exit", code |-> c] : c \in {0, 1, -9} }

-----------------------------------------------------------------------------
\* str.lower on the characters that occur.

UpperChars == <<"A","B","C","D","E","F","G","H","I","J","K","L","M",
                "N","O","P","Q","R","S","T","U","V","W","X","Y","Z">>
LowerChars == <<"a","b","c","d","e","f","g","h","i","j","k","l","m",
                "n","o","p","q","r","s","t","u","v","w","x","y","z">>

LowerChar(c) ==
  IF \E i \in DOMAIN UpperChars : UpperChars[i] = c
  THEN LowerChars[CHOOSE i \in DOMAIN UpperChars : UpperChars[i] = c]
  ELSE c

Lower(s) == [i \in DOMAIN s |-> LowerChar(s[i])]

\* int(text) for a str: the decimal digits give the number, anything else
\* raises ValueError.
Digits == <<"0","1","2","3","4","5","6","7","8","9">>

IsDigit(c) == \E i \in DOMAIN Digits : Digits[i] = c

DigitVal(c) == (CHOOSE i \in DOMAIN Digits : Digits[i] = c) - 1

IsInt(s) == Len(s) > 0 /\ \A i \in DOMAIN s : IsDigit(s[i])

RECURSIVE IntOf(_)
IntOf(s) ==
  IF Len(s) = 0 THEN 0
  ELSE 10 * IntOf(SubSeq(s, 1, Len(s) - 1)) + DigitVal(s[Len(s)])

-----------------------------------------------------------------------------
\* _get_audio_bitrate(input_path): the argv it runs.
FfprobeCmd(path) ==
  <<"ffprobe", "-v", "error", "-select_streams", "a:0",
    "-show_entries", "stream=bit_rate", "-of", "json", path>>

\* _get_audio_bitrate for one outcome of the ffprobe run.  The result names
\* the value returned (ret), the warning logged (warn) and the exception that
\* leaves the function (exc).
ProbeReturn(r) == [ret |-> r, warn |-> None, exc |-> None]
ProbeCaught(e) == [ret |-> None, warn |-> Some(e), exc |-> None]
ProbeRaise(e) == [ret |-> None, warn |-> None, exc |-> Some(e)]

GetAudioBitrateNoDiv(o) ==
  IF o.kind = "oserror" THEN ProbeRaise("FileNotFoundError")
  ELSE IF o.kind = "exit" THEN ProbeCaught("CalledProcessError")
  ELSE IF o.kind = "badjson" THEN ProbeCaught("JSONDecodeError")
  ELSE IF "streams" \in DOMAIN o.info /\ Len(o.info.streams) > 0
       THEN LET s == o.info.streams[1] IN
            IF "bit_rate" \in DOMAIN s /\ Len(s.bit_rate) > 0
            THEN IF IsInt(s.bit_rate)
                 THEN ProbeReturn(Some(ToString(IntOf(s.bit_rate)) \o "k"))
                 ELSE ProbeRaise("ValueError")
            ELSE ProbeReturn(None)
       ELSE ProbeReturn(None)

GetAudioBitrate(o) ==
  IF o.kind = "oserror" THEN ProbeRaise("FileNotFoundError")
  ELSE IF o.kind = "exit" THEN ProbeCaught("CalledProcessError")
  ELSE IF o.kind = "badjson" THEN ProbeCaught("JSONDecodeError")
  ELSE IF "streams" \in DOMAIN o.info /\ Len(o.info.streams) > 0
       THEN LET s == o.info.streams[1] IN
            IF "bit_rate" \in DOMAIN s /\ Len(s.bit_rate) > 0
            THEN IF IsInt(s.bit_rate)
                 THEN ProbeReturn(Some(ToString(IntOf(s.bit_rate) \div 1000) \o "k"))
                 ELSE ProbeRaise("ValueError")
            ELSE ProbeReturn(None)
       ELSE ProbeReturn(None)

-----------------------------------------------------------------------------
\* The codec map convert builds for a lowercased codec and the configured
\* extension: three fixed entries, and an entry for opus that depends on ext.
Policy(e, c, x) == [out_ext |-> e, audio_codec |-> c, extra_args |-> x]

BaseCodecMap ==
  (S_flac :> Policy(".flac", "copy", <<>>))
  @@ (S_ec3 :> Policy(".m4a", "ac3", <<"-metadata:s:a:0", "atmos=true">>))
  @@ (S_ac4 :> Policy(".m4a", "ac4", <<"-metadata:s:a:0", "atmos=true">>))

CodecMapOggAsOpus(codec, ext) ==
  IF codec = S_opus /\ ext = ".m4a"
  THEN (S_opus :> Policy(".m4a", "aac", <<>>)) @@ BaseCodecMap
  ELSE IF codec = S_opus /\ ext \in {".ogg", ".opus"}
  THEN (S_opus :> Policy(".opus", "copy", <<>>)) @@ BaseCodecMap
  ELSE BaseCodecMap

CodecMapOpusAlways(codec, ext) ==
  IF codec = S_opus /\ ext = ".m4a"
  THEN (S_opus :> Policy(".m4a", "aac", <<>>)) @@ BaseCodecMap
  ELSE IF codec = S_opus
  THEN (S_opus :> Policy(ext, "copy", <<>>)) @@ BaseCodecMap
  ELSE BaseCodecMap

CodecMap(codec, ext) ==
  IF codec = S_opus /\ ext = ".m4a"
  THEN (S_opus :> Policy(".m4a", "aac", <<>>)) @@ BaseCodecMap
  ELSE IF codec = S_opus /\ ext \in {".ogg", ".opus"}
  THEN (S_opus :> Policy(ext, "copy", <<>>)) @@ BaseCodecMap
  ELSE BaseCodecMap

-----------------------------------------------------------------------------
VARIABLES
  target_extension,  \* self.target_extension (the enum member's value)
  calls,             \* convert calls that have returned or raised
  pc,                \* position of the running convert call
  input_path,        \* argument
  codec_arg,         \* argument codec as passed
  codec,             \* local codec after codec = codec.lower()
  output_name,       \* argument
  decryption_key,    \* argument, Optional[str]
  policy,            \* codec_map[codec]: out_ext, audio_codec, extra_args
  output_path,       \* local
  ffmpeg_cmd,        \* local, the list being built
  bitrate,           \* local, Optional: set in the aac branch
  probe,             \* outcome and result of the _get_audio_bitrate call
  returncode,        \* result.returncode of the ffmpeg run, Optional
  events,            \* os.path.isfile, codec lookup and subprocess.run calls
  log,               \* calls of printer.error and printer.warning
  ret                \* how the call ended: value returned or exception

vars == <<target_extension, calls, pc, input_path, codec_arg, codec,
          output_name, decryption_key, policy, output_path, ffmpeg_cmd,
          bitrate, probe, returncode, events, log, ret>>

NoPolicy == Policy("", "", <<>>)
NoProbe == [called |-> FALSE]

Locals0 ==
  /\ codec = <<>>
  /\ policy = NoPolicy
  /\ output_path = ""
  /\ ffmpeg_cmd = <<>>
  /\ bitrate = None
  /\ probe = NoProbe
  /\ returncode = None
  /\ events = <<>>
  /\ log = <<>>
  /\ ret = [kind |-> "running"]

\* AudioConverter.__init__: any target extension; no call is running.
Init ==
  /\ target_extension \in AudioExtension
  /\ calls = 0
  /\ pc = "idle"
  /\ input_path = ""
  /\ codec_arg = <<>>
  /\ output_name = ""
  /\ decryption_key = None
  /\ Locals0

Event(op, argv) == [op |-> op, argv |-> argv]
Error(msg) == [level |-> "error", msg |-> msg]
Warning(msg) == [level |-> "warning", msg |-> msg]
Returned(v) == [kind |-> "return", val |-> v]
Raised(e) == [kind |-> "raise", exc |-> e]

\* A caller enters convert(input_path, codec, output_name, decryption_key).
Call ==
  /\ pc = "idle"
  /\ calls < MaxCalls
  /\ \E p \in InputPaths, c \in Codecs, n \in OutputNames, k \in DecryptionKeys :
       /\ input_path' = p
       /\ codec_arg' = c
       /\ output_name' = n
       /\ decryption_key' = k
  /\ pc' = "validate"
  /\ UNCHANGED <<target_extension, calls, codec, policy, output_path,
                 ffmpeg_cmd, bitrate, probe, returncode, events, log, ret>>

\* if not os.path.isfile(input_path): error(...); return None
ValidateInputSkipped ==
  /\ pc = "validate"
  /\ events' = Append(events, Event("isfile", <<input_path>>))
  /\ pc' = "resolve"
  /\ UNCHANGED <<log, ret>>
  /\ UNCHANGED <<target_extension, calls, input_path, codec_arg, codec,
                 output_name, decryption_key, policy, output_path, ffmpeg_cmd,
                 bitrate, probe, returncode>>

ValidateInput ==
  /\ pc = "validate"
  /\ events' = Append(events, Event("isfile", <<input_path>>))
  /\ IF input_path \notin ExistingFiles
     THEN /\ log' = Append(log, Error(<<"Input file does not exist: ", input_path>>))
          /\ ret' = Returned(None)
          /\ pc' = "done"
     ELSE /\ pc' = "resolve"
          /\ UNCHANGED <<log, ret>>
  /\ UNCHANGED <<target_extension, calls, input_path, codec_arg, codec,
                 output_name, decryption_key, policy, output_path, ffmpeg_cmd,
                 bitrate, probe, returncode>>

\* codec = codec.lower(); build codec_map; if codec not in codec_map:
\* error(...); return None; else unpack the entry and form output_path.
ResolvePolicy ==
  /\ pc = "resolve"
  /\ LET lc == Lower(codec_arg)
         codec_map == CodecMap(lc, target_extension)
     IN /\ codec' = lc
        /\ events' = Append(events, Event("lookup", <<>>))
        /\ IF lc \notin DOMAIN codec_map
           THEN /\ log' = Append(log, Error(<<"Unsupported codec: ">> \o lc))
                /\ ret' = Returned(None)
                /\ pc' = "done"
                /\ UNCHANGED <<policy, output_path>>
           ELSE /\ policy' = codec_map[lc]
                /\ output_path' = output_name \o codec_map[lc].out_ext
                /\ pc' = "start_cmd"
                /\ UNCHANGED <<log, ret>>
  /\ UNCHANGED <<target_extension, calls, input_path, codec_arg, output_name,
                 decryption_key, ffmpeg_cmd, bitrate, probe, returncode>>

\* Truth value of an Optional[str] in `if decryption_key:`.
Truthy(k) == k.some /\ k.val # ""

\* ffmpeg_cmd = ["ffmpeg", "-y"]; the key if given; then -i and -c:a.
StartCommandKeyAfterInput ==
  /\ pc = "start_cmd"
  /\ ffmpeg_cmd' = <<"ffmpeg", "-y">>
                   \o <<"-i", input_path>>
                   \o (IF Truthy(decryption_key)
                       THEN <<"-decryption_key", decryption_key.val>>
                       ELSE <<>>)
                   \o <<"-c:a", policy.audio_codec>>
  /\ pc' = "bitrate"
  /\ UNCHANGED <<target_extension, calls, input_path, codec_arg, codec,
                 output_name, decryption_key, policy, output_path, bitrate,
                 probe, returncode, events, log, ret>>

StartCommand ==
  /\ pc = "start_cmd"
  /\ ffmpeg_cmd' = <<"ffmpeg", "-y">>
                   \o (IF Truthy(decryption_key)
                       THEN <<"-decryption_key", decryption_key.val>>
                       ELSE <<>>)
                   \o <<"-i", input_path, "-c:a", policy.audio_codec>>
  /\ pc' = "bitrate"
  /\ UNCHANGED <<target_extension, calls, input_path, codec_arg, codec,
                 output_name, decryption_key, policy, output_path, bitrate,
                 probe, returncode, events, log, ret>>

\* if audio_codec == "aac": bitrate = self._get_audio_bitrate(input_path) or
\* "128k"; ffmpeg_cmd += ["-b:a", bitrate]; warning(...).  An exception that
\* _get_audio_bitrate does not catch leaves convert.
Bitrate ==
  /\ pc = "bitrate"
  /\ IF policy.audio_codec = "aac"
     THEN \E o \in ProbeOutcomes :
            LET r == GetAudioBitrate(o)
                b == IF r.ret.some THEN r.ret.val ELSE "128k"
                warned == IF r.warn.some
                          THEN Append(log, Warning(<<"[bitrate detection] failed: ", r.warn.val>>))
                          ELSE log
            IN /\ events' = Append(events, Event("ffprobe", FfprobeCmd(input_path)))
               /\ probe' = [called |-> TRUE, outcome |-> o, result |-> r]
               /\ IF r.exc.some
                  THEN /\ ret' = Raised(r.exc.val)
                       /\ pc' = "done"
                       /\ log' = warned
                       /\ UNCHANGED <<bitrate, ffmpeg_cmd>>
                  ELSE /\ bitrate' = Some(b)
                       /\ ffmpeg_cmd' = ffmpeg_cmd \o <<"-b:a", b>>
                       /\ log' = Append(warned, Warning(<<"Using AAC bitrate: ", b>>))
                       /\ pc' = "finish_cmd"
                       /\ UNCHANGED ret
     ELSE /\ pc' = "finish_cmd"
          /\ UNCHANGED <<events, probe, ret, bitrate, ffmpeg_cmd, log>>
  /\ UNCHANGED <<target_extension, calls, input_path, codec_arg, codec,
                 output_name, decryption_key, policy, output_path, returncode>>

\* ffmpeg_cmd += extra_args; the faststart flags for .m4a; the output path.
FinishCommandFaststartFirst ==
  /\ pc = "finish_cmd"
  /\ ffmpeg_cmd' = ffmpeg_cmd
                   \o (IF policy.out_ext = ".m4a"
                       THEN <<"-movflags", "+faststart">>
                       ELSE <<>>)
                   \o policy.extra_args
                   \o <<output_path>>
  /\ pc' = "run"
  /\ UNCHANGED <<target_extension, calls, input_path, codec_arg, codec,
                 output_name, decryption_key, policy, output_path, bitrate,
                 probe, returncode, events, log, ret>>

FinishCommandFaststartForAac ==
  /\ pc = "finish_cmd"
  /\ ffmpeg_cmd' = ffmpeg_cmd
                   \o policy.extra_args
                   \o (IF policy.audio_codec = "aac"
                       THEN <<"-movflags", "+faststart">>
                       ELSE <<>>)
                   \o <<output_path>>
  /\ pc' = "run"
  /\ UNCHANGED <<target_extension, calls, input_path, codec_arg, codec,
                 output_name, decryption_key, policy, output_path, bitrate,
                 probe, returncode, events, log, ret>>

FinishCommand ==
  /\ pc = "finish_cmd"
  /\ ffmpeg_cmd' = ffmpeg_cmd
                   \o policy.extra_args
                   \o (IF policy.out_ext = ".m4a"
                       THEN <<"-movflags", "+faststart">>
                       ELSE <<>>)
                   \o <<output_path>>
  /\ pc' = "run"
  /\ UNCHANGED <<target_extension, calls, input_path, codec_arg, codec,
                 output_name, decryption_key, policy, output_path, bitrate,
                 probe, returncode, events, log, ret>>

\* result = subprocess.run(ffmpeg_cmd, ...); nonzero return code: error(...)
\* and return None; otherwise return output_path.  An executable that cannot
\* be started raises out of convert.
RunFfmpegIgnoresExit ==
  /\ pc = "run"
  /\ events' = Append(events, Event("ffmpeg", ffmpeg_cmd))
  /\ \E o \in FfmpegOutcomes :
       IF o.kind = "oserror"
       THEN /\ ret' = Raised("FileNotFoundError")
            /\ UNCHANGED <<returncode, log>>
       ELSE /\ returncode' = Some(o.code)
            /\ ret' = Returned(Some(output_path))
            /\ UNCHANGED log
  /\ pc' = "done"
  /\ UNCHANGED <<target_extension, calls, input_path, codec_arg, codec,
                 output_name, decryption_key, policy, output_path, ffmpeg_cmd,
                 bitrate, probe>>

RunFfmpegRetries ==
  /\ pc = "run"
  /\ events' = Append(events, Event("ffmpeg", ffmpeg_cmd))
  /\ \E o \in FfmpegOutcomes :
       IF o.kind = "oserror"
       THEN /\ ret' = Raised("FileNotFoundError")
            /\ pc' = "done"
            /\ UNCHANGED <<returncode, log>>
       ELSE /\ returncode' = Some(o.code)
            /\ IF o.code # 0
               THEN /\ log' = Append(log, Error(<<"[ffmpeg error] ", "stderr">>))
                    /\ IF Len(events) < 4
                       THEN pc' = "run" /\ UNCHANGED ret
                       ELSE pc' = "done" /\ ret' = Returned(None)
               ELSE /\ ret' = Returned(Some(output_path))
                    /\ pc' = "done"
                    /\ UNCHANGED log
  /\ UNCHANGED <<target_extension, calls, input_path, codec_arg, codec,
                 output_name, decryption_key, policy, output_path, ffmpeg_cmd,
                 bitrate, probe>>

RunFfmpeg ==
  /\ pc = "run"
  /\ events' = Append(events, Event("ffmpeg", ffmpeg_cmd))
  /\ \E o \in FfmpegOutcomes :
       IF o.kind = "oserror"
       THEN /\ ret' = Raised("FileNotFoundError")
            /\ UNCHANGED <<returncode, log>>
       ELSE /\ returncode' = Some(o.code)
            /\ IF o.code # 0
               THEN /\ log' = Append(log, Error(<<"[ffmpeg error] ", "stderr">>))
                    /\ ret' = Returned(None)
               ELSE /\ ret' = Returned(Some(output_path))
                    /\ UNCHANGED log
  /\ pc' = "done"
  /\ UNCHANGED <<target_extension, calls, input_path, codec_arg, codec,
                 output_name, decryption_key, policy, output_path, ffmpeg_cmd,
                 bitrate, probe>>

\* The call has ended; its arguments and locals are gone.
Return ==
  /\ pc = "done"
  /\ pc' = "idle"
  /\ calls' = calls + 1
  /\ input_path' = ""
  /\ codec_arg' = <<>>
  /\ output_name' = ""
  /\ decryption_key' = None
  /\ codec' = <<>>
  /\ policy' = NoPolicy
  /\ output_path' = ""
  /\ ffmpeg_cmd' = <<>>
  /\ bitrate' = None
  /\ probe' = NoProbe
  /\ returncode' = None
  /\ events' = <<>>
  /\ log' = <<>>
  /\ ret' = [kind |-> "running"]
  /\ UNCHANGED target_extension

Next ==
  \/ Call
  \/ ValidateInput
  \/ ResolvePolicy
  \/ StartCommand
  \/ Bitrate
  \/ FinishCommand
  \/ RunFfmpeg
  \/ Return

Spec == Init /\ [][Next]_vars

TypeOK ==
  /\ target_extension \in AudioExtension
  /\ calls \in 0..MaxCalls
  /\ pc \in {"idle", "validate", "resolve", "start_cmd", "bitrate",
             "finish_cmd", "run", "done"}

-----------------------------------------------------------------------------
\* Vocabulary of the properties, stated from the documented behaviour and
\* independent of the operators above.

\* The documented lowercase form of each codec string in Codecs.
ExpectedLowered(c) ==
  CASE c = <<"F","L","A","C">> -> S_flac
    [] c = <<"E","C","-","3">> -> S_ec3
    [] c = <<"A","C","-","4",".","0","2",".","0","2",".","0","0">> -> S_ac4
    [] c = <<"O","p","u","s">> -> S_opus
    [] c = <<"O","P","U","S">> -> S_opus
    [] OTHER -> c

AtmosArgs == <<"-metadata:s:a:0", "atmos=true">>

\* The documented policy table; Unsupported where it has no entry.
Unsupported == [supported |-> FALSE]
Entry(e, c, x) == [supported |-> TRUE, ext |-> e, acodec |-> c, extra |-> x]

ExpectedPolicy(c, t) ==
  CASE c = S_flac -> Entry(".flac", "copy", <<>>)
    [] c = S_ec3 -> Entry(".m4a", "ac3", AtmosArgs)
    [] c = S_ac4 -> Entry(".m4a", "ac4", AtmosArgs)
    [] c = S_opus /\ t = ".m4a" -> Entry(".m4a", "aac", <<>>)
    [] c = S_opus /\ t = ".opus" -> Entry(".opus", "copy", <<>>)
    [] c = S_opus /\ t = ".ogg" -> Entry(".ogg", "copy", <<>>)
    [] OTHER -> Unsupported

Want == ExpectedPolicy(ExpectedLowered(codec_arg), target_extension)

InputExists == input_path \in ExistingFiles

InCall == pc # "idle"

Looked == \E i \in DOMAIN events : events[i].op = "lookup"

OpCount(op) == Cardinality({i \in DOMAIN events : events[i].op = op})

NoProcess == OpCount("ffprobe") = 0 /\ OpCount("ffmpeg") = 0

Count(seq, x) == Cardinality({i \in DOMAIN seq : seq[i] = x})

\* The conversion tool has been handed its argument list.
ToolInvoked == OpCount("ffmpeg") > 0

\* The argument list handed to the conversion tool.
Argv == events[CHOOSE i \in DOMAIN events : events[i].op = "ffmpeg"].argv

UnsupportedReported ==
  /\ pc = "done"
  /\ ret = Returned(None)
  /\ log = << Error(<<"Unsupported codec: ">> \o ExpectedLowered(codec_arg)) >>

-----------------------------------------------------------------------------
\* C1: once convert has looked the codec up, the lowercased codec and the
\* resolved policy are those of the documented table for the codec passed and
\* the configured target format: flac, ec-3 and ac-4.02.02.00 resolve
\* independently of the target; opus resolves to (.m4a, aac, []) for M4A, to
\* (.opus, copy, []) for OPUS, to (.ogg, copy, []) for OGG and is unsupported
\* for FLAC and MP3; every other codec is unsupported.
C1_PolicyTable ==
  Looked =>
    /\ codec = ExpectedLowered(codec_arg)
    /\ IF Want.supported
       THEN policy = Policy(Want.ext, Want.acodec, Want.extra)
       ELSE policy = NoPolicy /\ UnsupportedReported

C1_Witness ==
  /\ Looked
  /\ codec_arg = <<"O","p","u","s">>
  /\ target_extension = ".ogg"
  /\ policy = Policy(".ogg", "copy", <<>>)

\* C2: when the input path is not an existing file, the call has ended right
\* after the existence check with the missing-input error as the only report,
\* absent as the result, and no external process, whatever the codec, output
\* name, key and target format.
C2_MissingInput ==
  (InCall /\ pc # "validate" /\ ~InputExists) =>
    /\ pc = "done"
    /\ ret = Returned(None)
    /\ log = << Error(<<"Input file does not exist: ", input_path>>) >>
    /\ events = << Event("isfile", <<input_path>>) >>
    /\ NoProcess

C2_Witness ==
  /\ pc = "done"
  /\ input_path = "missing.bin"
  /\ ~Want.supported
  /\ decryption_key = Some("ABCD")
  /\ ret = Returned(None)

\* C3: when the input file exists and the lowercased codec has no policy
\* entry for the configured target, the call has ended at the lookup with an
\* error report, absent as the result, and no external process.
C3_UnsupportedCodec ==
  (InCall /\ pc \notin {"validate", "resolve"} /\ InputExists /\ ~Want.supported) =>
    /\ UnsupportedReported
    /\ NoProcess

C3_Witness ==
  /\ pc = "done"
  /\ InputExists
  /\ codec_arg = <<"O","P","U","S">>
  /\ target_extension = ".mp3"
  /\ ret = Returned(None)
  /\ NoProcess

-----------------------------------------------------------------------------
\* The command list exists in full: it is about to be run, or has been run.
Assembled == pc = "run" \/ ToolInvoked

IsAac == Want.supported /\ Want.acodec = "aac"

\* An ffprobe outcome whose first stream reports the given bit_rate text.
Rate(text) == [kind |-> "json", info |-> [streams |-> << [bit_rate |-> text] >>]]

\* The documented label for the outcomes that report a bit rate in bits per
\* second (divided by 1000, truncated, suffixed with k); absent otherwise.
ExpectedLabel(o) ==
  CASE o = Rate(<<"9","6","0","0","0">>) -> Some("96k")
    [] o = Rate(<<"1","2","8","0","0","0">>) -> Some("128k")
    [] o = Rate(<<"3","2","0","9","9","9">>) -> Some("320k")
    [] o = Rate(<<"9","9","9">>) -> Some("0k")
    [] OTHER -> None

\* The bitrate value documented for the probe made in this call.
ExpectedBitrate ==
  IF probe.called /\ ExpectedLabel(probe.outcome).some
  THEN ExpectedLabel(probe.outcome).val
  ELSE "128k"

ProbeWarned ==
  \E i \in DOMAIN log :
    /\ log[i].level = "warning"
    /\ log[i].msg[1] = "[bitrate detection] failed: "

HasPair(seq, a, b) ==
  \E i \in 1..(Len(seq) - 1) : seq[i] = a /\ seq[i + 1] = b

\* C4: a failed bitrate probe (tool not startable, nonzero exit, malformed
\* output, bit-rate field missing or not a number) never raises out of
\* convert: the prober logs a warning and returns absent, and the call goes on
\* to invoke the conversion tool with the fallback bitrate 128k.
C4_ProbeNeverRaises ==
  (probe.called /\ ~ExpectedLabel(probe.outcome).some) =>
    /\ ~probe.result.exc.some
    /\ probe.result.ret = None
    /\ ProbeWarned
    /\ (pc = "done" => ToolInvoked /\ HasPair(Argv, "-b:a", "128k"))

\* The output path documented for the call.
ExpectedOutput == output_name \o Want.ext

Validated == InCall /\ InputExists /\ Want.supported

FfmpegErrorReported ==
  /\ Len(log) > 0
  /\ log[Len(log)].level = "error"
  /\ log[Len(log)].msg[1] = "[ffmpeg error] "

\* C5 as stated: a validated call ends either with the output path and exit
\* code zero, or with an error report, absent and a nonzero exit code; there
\* is no third outcome.
C5_TwoOutcomes ==
  (pc = "done" /\ Validated) =>
    \/ /\ returncode = Some(0)
       /\ ret = Returned(Some(ExpectedOutput))
    \/ /\ returncode.some /\ returncode.val # 0
       /\ ret = Returned(None)
       /\ FfmpegErrorReported

\* C5 as amended: a validated call returns the output path (output name plus
\* the resolved extension) exactly when the conversion tool ran and exited
\* with zero; when it ran and exited nonzero the call reports the error and
\* returns absent; the third outcome is an exception leaving convert, when the
\* conversion tool cannot be started or the bitrate probe raises, and then
\* nothing is returned.
C5_ThreeOutcomes ==
  (pc = "done" /\ Validated) =>
    /\ \/ /\ returncode = Some(0)
          /\ ToolInvoked
          /\ ret = Returned(Some(ExpectedOutput))
       \/ /\ returncode.some /\ returncode.val # 0
          /\ ToolInvoked
          /\ ret = Returned(None)
          /\ FfmpegErrorReported
       \/ /\ returncode = None
          /\ ret.kind = "raise"
    /\ (ret.kind = "return" /\ ret.val.some) <=> returncode = Some(0)

C5_Witness ==
  /\ pc = "done"
  /\ codec_arg = <<"E","C","-","3">>
  /\ target_extension = ".opus"
  /\ output_name = "dir/track"
  /\ returncode = Some(0)
  /\ ret = Returned(Some("dir/track.m4a"))

\* The documented argument list, for a given decryption-key part.
ExpectedArgv(keypart) ==
  <<"ffmpeg", "-y">>
  \o keypart
  \o <<"-i", input_path, "-c:a", Want.acodec>>
  \o (IF Want.acodec = "aac" THEN <<"-b:a", ExpectedBitrate>> ELSE <<>>)
  \o Want.extra
  \o (IF Want.ext = ".m4a" THEN <<"-movflags", "+faststart">> ELSE <<>>)
  \o <<ExpectedOutput>>

KeyPart == <<"-decryption_key", decryption_key.val>>

\* C6 as stated: the argument list is the documented one, with the key flag
\* and value whenever a key was supplied (None is the only unsupplied key).
C6_ArgvKeySupplied ==
  (Assembled /\ Want.supported) =>
    /\ ffmpeg_cmd = ExpectedArgv(IF decryption_key.some THEN KeyPart ELSE <<>>)
    /\ (ToolInvoked => Argv = ffmpeg_cmd)

\* C6 as amended: the argument list is exactly ffmpeg, -y; the key flag and
\* value if a non-empty key was supplied; -i, path; -c:a, codec; -b:a, bitrate
\* if the codec is aac; the extra arguments; -movflags, +faststart if the
\* extension is .m4a; the output path.  It is a function of the arguments,
\* the target format and the probe outcome.
C6_ArgvKeyNonEmpty ==
  (Assembled /\ Want.supported) =>
    /\ ffmpeg_cmd = ExpectedArgv(IF decryption_key.some /\ decryption_key.val # ""
                                 THEN KeyPart ELSE <<>>)
    /\ (ToolInvoked => Argv = ffmpeg_cmd)

C6_Witness ==
  /\ pc = "done"
  /\ ToolInvoked
  /\ Argv = <<"ffmpeg", "-y", "-decryption_key", "ABCD", "-i", "song.flac_enc",
              "-c:a", "copy", "out.flac">>
  /\ ret = Returned(Some("out.flac"))

\* The key flag is in the list, immediately followed by v, and the input
\* flag comes after both.
KeyFlagBeforeInput(cmd, v) ==
  \E i \in 1..(Len(cmd) - 1) :
    /\ cmd[i] = "-decryption_key"
    /\ cmd[i + 1] = v
    /\ \E j \in DOMAIN cmd : cmd[j] = "-i"
    /\ \A j \in DOMAIN cmd : cmd[j] = "-i" => j > i + 1

\* C7 as stated: for every supplied key, the empty string included, the
\* command has the key flag immediately followed by the key, before -i; with
\* no key supplied the command has no key flag.
C7_KeyAnySupplied ==
  Assembled =>
    IF decryption_key.some
    THEN KeyFlagBeforeInput(ffmpeg_cmd, decryption_key.val)
    ELSE Count(ffmpeg_cmd, "-decryption_key") = 0

\* C7 as amended: for every supplied non-empty key the command has the key
\* flag exactly once, immediately followed by the key, before -i; with no key
\* or the empty string as key the command has no key flag.
C7_KeyNonEmpty ==
  Assembled =>
    IF decryption_key.some /\ decryption_key.val # ""
    THEN /\ KeyFlagBeforeInput(ffmpeg_cmd, decryption_key.val)
         /\ Count(ffmpeg_cmd, "-decryption_key") = 1
    ELSE Count(ffmpeg_cmd, "-decryption_key") = 0

C7_Witness ==
  /\ Assembled
  /\ decryption_key = Some("ABCD")
  /\ SubSeq(ffmpeg_cmd, 3, 5) = <<"-decryption_key", "ABCD", "-i">>

\* C8: the probe is invoked only when the resolved codec is aac (opus source,
\* target M4A); the command has the bitrate flag exactly when the codec is
\* aac, once, followed by the probed label (bits per second divided by 1000,
\* truncated, with k) when the probe returned one and by 128k otherwise.
C8_Bitrate ==
  /\ OpCount("ffprobe") > 0 =>
       /\ IsAac
       /\ ExpectedLowered(codec_arg) = S_opus /\ target_extension = ".m4a"
  /\ Assembled =>
       /\ Count(ffmpeg_cmd, "-b:a") > 0 <=> IsAac
       /\ IsAac => /\ Count(ffmpeg_cmd, "-b:a") = 1
                   /\ OpCount("ffprobe") = 1
                   /\ HasPair(ffmpeg_cmd, "-b:a", ExpectedBitrate)
                   /\ bitrate = Some(ExpectedBitrate)

C8_Witness ==
  /\ Assembled
  /\ probe.called
  /\ probe.outcome = Rate(<<"3","2","0","9","9","9">>)
  /\ HasPair(ffmpeg_cmd, "-b:a", "320k")

\* C9: when the resolved extension is .m4a the command has the fast-start
\* flag exactly once, whatever the codec, right after the extra arguments and
\* immediately before the output path; otherwise it has none.
C9_Faststart ==
  (Assembled /\ Want.supported) =>
    LET n == Len(ffmpeg_cmd) IN
    IF Want.ext = ".m4a"
    THEN /\ Count(ffmpeg_cmd, "-movflags") = 1
         /\ Count(ffmpeg_cmd, "+faststart") = 1
         /\ ffmpeg_cmd[n - 2] = "-movflags"
         /\ ffmpeg_cmd[n - 1] = "+faststart"
         /\ ffmpeg_cmd[n] = ExpectedOutput
         /\ SubSeq(ffmpeg_cmd, n - 2 - Len(Want.extra), n - 3) = Want.extra
    ELSE /\ Count(ffmpeg_cmd, "-movflags") = 0
         /\ Count(ffmpeg_cmd, "+faststart") = 0

C9_Witness ==
  /\ Assembled
  /\ codec_arg = S_ac4
  /\ target_extension = ".flac"
  /\ SubSeq(ffmpeg_cmd, Len(ffmpeg_cmd) - 4, Len(ffmpeg_cmd)) =
       AtmosArgs \o <<"-movflags", "+faststart", output_name \o ".m4a">>

\* Order of the steps of the running call.
StepOrder ==
  /\ OpCount("ffmpeg") <= 1
  /\ OpCount("ffprobe") <= 1
  /\ \A i, j \in DOMAIN events :
       (events[i].op = "ffprobe" /\ events[j].op = "ffmpeg") => i < j
  /\ \A i \in DOMAIN events :
       events[i].op \in {"ffprobe", "ffmpeg"} =>
         /\ \E a \in 1..(i - 1) : events[a].op = "isfile"
         /\ \E b \in 1..(i - 1) : events[b].op = "lookup"

NoRetry ==
  (returncode.some /\ returncode.val # 0) =>
    Cardinality({i \in DOMAIN events' : events'[i].op = "ffmpeg"}) <= OpCount("ffmpeg")

\* C10: in every call of every sequence of calls, the conversion tool is
\* invoked at most once and not again after a nonzero exit, the probe at most
\* once and only before the conversion tool, both validation checks precede
\* any external invocation, and the target format never changes.
C10_CallDiscipline ==
  /\ []StepOrder
  /\ [][NoRetry]_vars
  /\ [][target_extension' = target_extension]_vars

C10_Witness ==
  /\ calls = MaxCalls - 1
  /\ pc = "done"
  /\ OpCount("ffprobe") = 1
  /\ OpCount("ffmpeg") = 1
  /\ returncode = Some(1)
====
